---- MODULE Spec2Model ----
(***************************************************************************)
(* Edge agent of JanawarCensus: the capture loop (AudioRecorder), the      *)
(* location logger (GPSTracker) and the relay to the collector             *)
(* (ServerSynchronizer), as threads of one process over one local file     *)
(* system, one durable sync index file and one remote file system.         *)
(*                                                                         *)
(* RECORDINGS_DIR and GPS_DATA_DIR are taken to be set, so that the        *)
(* recorder's output_dir is the synchronizer's local_recordings_dir and    *)
(* the tracker's data_dir is its local_gps_dir.                            *)
(***************************************************************************)
EXTENDS Integers, Sequences, FiniteSets, TLC

\* ------------------------------------------------------------------ bounds
\* Timestamps (one per second-resolution file name) the clock runs through
\* when the recorder runs beside the other threads (Spec, SpecSync) ...
MaxTime == 1
\* ... and when it runs with the crash alone (SpecCapture).
MaxTimeAlone == 2
\* Lines appended to one daily location log.
MaxLines == 2
\* Sync passes started over the whole run.
MaxPasses == 2
\* Crash/restarts of the device over the whole run.
MaxCrashes == 1
\* Recordings found in the directory when the recorder starts (SpecReclaim).
MaxOld == 3
\* Capture cycles begun on top of them (SpecReclaim).
MaxNew == 3
\* Chunks read in a full cycle, int(rate / chunk * record_seconds) in the
\* code (SpecFrames).
MaxChunks == 2
\* Calendar days the GPS thread runs through (SpecTracker).
MaxDays == 3
\* Ticks in a row without a fix that are counted.
MaxNoFix == 3
\* Calendar days the whole service runs through (SpecService).
MaxServiceDays == 2
\* Lines per daily log, and counted ticks without a fix, when the GPS thread
\* runs beside the other threads (SpecService).
MaxServiceTicks == 1
\* Capture cycles begun when the file names follow the wall clock (SpecNames).
MaxCycles == 3

\* ------------------------------------------------------- program constants
\* GPSTracker.max_gps_logs
max_gps_logs == 30

TS == 1..(IF MaxTime > MaxTimeAlone THEN MaxTime ELSE MaxTimeAlone)
\* The UTC day of the run: gps_{YYYYMMDD}.jsonl is one file.
Today == 1

\* ------------------------------------------------------------------- paths
\* A recorder that writes the frames at the final name.
TempFilenameDirect(t) == [k |-> "wav", i |-> t]
\* f"{filename}.tmp", the file the frames are written to.
TempFilename(t) == [k |-> "tmp", i |-> t]
\* {device_id}_{timestamp}.wav
RecordingFilename(t) == [k |-> "wav", i |-> t]
\* f"{filename}.json"
MetadataFilename(t) == [k |-> "json", i |-> t]
\* gps_{YYYYMMDD}.jsonl
GpsFilename(d) == [k |-> "gps", i |-> d]

\* The paths of the recordings directory for the timestamps T.
RecordingsOf(T) == {TempFilename(t) : t \in T} \cup {RecordingFilename(t) : t \in T}
                     \cup {MetadataFilename(t) : t \in T}
RecordingsDir == RecordingsOf(TS)
\* The daily logs of the days D.
GpsLogsOf(D) == {GpsFilename(d) : d \in D}
GpsDir == {GpsFilename(Today)}
Paths == RecordingsDir \cup GpsDir
NoPath == [k |-> "none", i |-> 0]

\* The managed directories in the order sync_files walks them.
SyncDirs == <<{"tmp", "wav", "json"}, {"gps"}>>

\* File content: c is its modification time, counted in capture cycles (the
\* cycle that wrote it; 0 for a location log),
\* n how much of it is there: Partial/Full for a capture file, the number of
\* lines for a location log. Absent: no file at the path.
Partial == 0
Full == 1
Absent == [c |-> 0, n |-> -1]
Exists(f, p) == f[p] # Absent

VARIABLES
  now,           \* wall clock, in file-name timestamps
  fs,            \* local file system: Paths -> content
  remote,        \* collector's file system, at the mirrored paths
  idxFile,       \* sync_status.json: [st: "absent"|"trunc"|"ok", files]
  recording,     \* AudioRecorder.recording
  cpc,           \* position of the recording thread
  fname,         \* timestamp of the current cycle's filename
  cyc,           \* capture cycles begun so far
  recordings,    \* _check_storage's sorted candidate list
  oldest_recording, \* the candidate _check_storage popped last
  spc,           \* position of the sync pass
  sdir,          \* index in SyncDirs of the directory being walked
  snap,          \* entries of that directory not yet visited
  cur,           \* file_path of the loop body
  synced_files,  \* ServerSynchronizer.synced_files
  lastPass,      \* how the last pass ended: [ret: none|True|False|raised, at]
  configOk,      \* server_address and server_username are set
  passes,        \* sync passes started
  crashes,       \* crash/restarts so far
  passFailed,    \* an upload of this pass failed (history)
  idx0,          \* synced_files when this pass began, kept for a quiet pass (history)
  newFile,       \* a local file was created since this pass began (history)
  prevRes,       \* the pass before this one: none|clean|dirty|failed (history)
  quiet,         \* this pass began after a pass that returned True (clean: with
                 \* no failed upload) and no file was created since that pass
                 \* began: no|dirty|clean (history)
  preCrash,      \* what the last crash interrupted (history)
  cfg,           \* the disk and the recorder's settings, in units of one
                 \* finished recording: [total, other, max_storage,
                 \* min_free_space, faults]; other is what the file system
                 \* holds beside the recordings, faults whether the sensor
                 \* and the disk can fail with an I/O error
  frames,        \* chunks in the frames list of the cycle under way
  flushed,       \* recordings of this run that an os.sync() has followed
                 \* since their rename (history)
  gone,          \* files this pass found missing when it came to send them (history)
  running,       \* BirdRecorderService.running
  mpc,           \* position of the main thread (start, the serving loop, stop)
  gps_available, \* GPSTracker.gps_available
  gps_running,   \* GPSTracker.running
  gpc,           \* position of the GPS thread
  sched,         \* position of the sync scheduler thread (sync_loop)
  next_sync,     \* sync_loop's next_sync, as a calendar day
  today,         \* the calendar day of the wall clock
  lastSyncDay,   \* the day on which sync_loop last called sync_files (history)
  nofix,         \* ticks in a row on which gpsd had no fix (history)
  faultCyc,      \* capture cycles begun when a sibling thread last failed, -1
                 \* before any failure (history)
  reclaimRes     \* [on, over, low, last]: the _check_storage under way found
                 \* the condition of its if true, the directory above the
                 \* budget, the free space below the floor; how the last one
                 \* ended, until a capture file is created:
                 \* none|skipped|done|error (history)

vars == <<now, fs, remote, idxFile, recording, cpc, fname, cyc, recordings,
          oldest_recording, spc, sdir, snap, cur, synced_files, lastPass,
          configOk, passes, crashes, passFailed, idx0, newFile, prevRes, quiet,
          preCrash, cfg, reclaimRes, frames, flushed, gone, running, mpc,
          gps_available, gps_running, gpc, sched, next_sync, today,
          lastSyncDay, nofix, faultCyc>>

captureVars == <<recording, cpc, fname, cyc, recordings, oldest_recording,
                 reclaimRes, frames, flushed>>
syncVars == <<spc, sdir, snap, cur, synced_files, lastPass, passes, passFailed,
              idx0, prevRes, quiet, gone>>
\* What no thread but the crash touches.
fixedVars == <<configOk, crashes, preCrash, cfg>>
\* The supervisor (BirdRecorderService), the GPS thread and the sync scheduler.
mainVars == <<running, mpc>>
gpsVars == <<gps_available, gps_running, gpc, nofix>>
schedVars == <<sched, next_sync, lastSyncDay>>
svcVars == <<mainVars, gpsVars, schedVars, today, faultCyc>>

NoCrash == [mid |-> FALSE, file |-> NoPath, confirmed |-> {}]
NoPass == [ret |-> "none", at |-> "none"]
NoReclaim == [on |-> FALSE, over |-> FALSE, low |-> FALSE, last |-> "none"]

\* shutil.disk_usage's total, MAX_STORAGE_GB and SSD_MIN_FREE_GB.
DiskTotal == cfg.total
max_storage == cfg.max_storage
min_free_space == cfg.min_free_space
\* A disk of one recording with a budget and a floor of one recording.
SmallDisk == [total |-> 1, other |-> 0, max_storage |-> 1, min_free_space |-> 1,
              faults |-> TRUE]

\* The supervisor not started: the threads are run without it.
ServiceOff ==
  /\ running = FALSE
  /\ mpc = "init"
  /\ gps_available = TRUE
  /\ gps_running = FALSE
  /\ gpc = "none"
  /\ nofix = 0
  /\ sched = "none"
  /\ next_sync = 0
  /\ lastSyncDay = 0
  /\ today = Today
  /\ faultCyc = -1

\* ------------------------------------------------------------ sync index
\* _load_sync_status: the set in the file; the empty set when the file is
\* missing or does not parse.
LoadSyncStatus(f) == IF f.st = "ok" THEN f.files ELSE {}

Init ==
  /\ now = 1
  /\ fs = [p \in Paths |-> Absent]
  /\ remote = [p \in Paths |-> Absent]
  /\ idxFile = [st |-> "absent", files |-> {}]
  /\ recording = FALSE
  /\ cpc = "stopped"
  /\ fname = 0
  /\ cyc = 0
  /\ recordings = <<>>
  /\ oldest_recording = NoPath
  /\ spc = "idle"
  /\ sdir = 1
  /\ snap = {}
  /\ cur = NoPath
  /\ synced_files = LoadSyncStatus(idxFile)
  /\ lastPass = NoPass
  /\ configOk \in BOOLEAN
  /\ passes = 0
  /\ crashes = 0
  /\ passFailed = FALSE
  /\ idx0 = {}
  /\ newFile = FALSE
  /\ prevRes = "none"
  /\ quiet = "no"
  /\ preCrash = NoCrash
  /\ cfg = SmallDisk
  /\ reclaimRes = NoReclaim
  /\ frames = 0
  /\ flushed = {}
  /\ gone = {}
  /\ ServiceOff

\* ------------------------------------------------------------ AudioRecorder
\* shutil.disk_usage: a finalized capture (temporary or renamed) takes one
\* block; unfinished files, sidecars and location logs are taken as 0.
Used(f) == cfg.other
             + Cardinality({p \in DOMAIN f : p.k \in {"tmp", "wav"} /\ f[p].n = Full})
\* The bytes under the recordings directory alone.
DirUsed(f) == Cardinality({p \in DOMAIN f : p.k \in {"tmp", "wav"} /\ f[p].n = Full})
Free(f) == DiskTotal - Used(f)

\* os.path.getmtime of a capture file: the time its frames were written,
\* which grows with the cycle that wrote them.
Mtime(f, p) == f[p].c

\* A clean-up that takes every file it finds as a candidate.
GlobAll(f) == {p \in DOMAIN f : Exists(f, p)}
\* A clean-up that takes only recordings the sync index holds.
GlobWavSynced(f) == {p \in DOMAIN f : p.k = "wav" /\ Exists(f, p) /\ p \in synced_files}
\* output_dir.glob('*.wav')
GlobWav(f) == {p \in DOMAIN f : p.k = "wav" /\ Exists(f, p)}

\* sorted(..., key=os.path.getmtime)
RECURSIVE SortedByMtime(_, _)
SortedByMtime(f, S) ==
  IF S = {} THEN <<>>
  ELSE LET m == CHOOSE p \in S : \A q \in S :
                  \/ Mtime(f, p) < Mtime(f, q)
                  \/ Mtime(f, p) = Mtime(f, q) /\ p.i <= q.i
       IN <<m>> \o SortedByMtime(f, S \ {m})

\* The condition that starts a clean-up, and the one that keeps it deleting
\* (max_storage_gb * 0.9, in tenths).
OverLimit(f) == Used(f) > max_storage \/ Free(f) < min_free_space
StillOver(f) == Used(f) * 10 > max_storage * 9 \/ Free(f) < min_free_space

\* A loop that ends for good at the first error.
AfterErrorStop == "stopped"
\* Where the recording thread is after an error: at the top of its loop.
AfterError == "top"

\* A loop that tests the flag, and leaves, in the middle of a cycle too.
StopsAnywhere == {"top", "tmpOpen", "tmpWrite", "rename", "meta"}
\* Where the thread tests self.recording and leaves its loop: at the top.
StopsAt == {"top"}

\* start(): spawn the recording thread.
Start ==
  /\ ~recording
  /\ cpc = "stopped"
  /\ recording' = TRUE
  /\ cpc' = "top"
  /\ UNCHANGED <<now, fs, remote, idxFile, fname, cyc, recordings,
                 oldest_recording, reclaimRes, newFile, frames, flushed>>
  /\ UNCHANGED <<syncVars, fixedVars, svcVars>>

\* stop(): clear the flag; the join then waits for the thread to leave its
\* loop.
Stop ==
  /\ recording
  /\ recording' = FALSE
  /\ UNCHANGED <<now, fs, remote, idxFile, cpc, fname, cyc, recordings,
                 oldest_recording, reclaimRes, newFile, frames, flushed>>
  /\ UNCHANGED <<syncVars, fixedVars, svcVars>>

\* while self.recording: the flag is down, the thread ends.
CaptureExit ==
  /\ cpc \in StopsAt
  /\ ~recording
  /\ cpc' = "stopped"
  /\ fname' = 0
  /\ UNCHANGED <<now, fs, remote, idxFile, recording, cyc, recordings,
                 oldest_recording, reclaimRes, newFile, frames, flushed>>
  /\ UNCHANGED <<syncVars, fixedVars, svcVars>>

\* _check_storage up to its loop: the disk usage, the condition, and the
\* sorted list of candidates.
CheckStorageBegin ==
  /\ cpc' = "reclaim"
  /\ recordings' = IF OverLimit(fs) THEN SortedByMtime(fs, GlobWav(fs)) ELSE <<>>
  /\ reclaimRes' = [reclaimRes EXCEPT !.on = OverLimit(fs),
                                       !.over = DirUsed(fs) > max_storage,
                                       !.low = Free(fs) < min_free_space]

\* _check_storage returns.
CheckStorageEnd(res) ==
  /\ cpc' = "name"
  /\ recordings' = <<>>
  /\ oldest_recording' = NoPath
  /\ reclaimRes' = [NoReclaim EXCEPT !.last = IF reclaimRes.on THEN res ELSE "skipped"]

\* What _check_storage has logged above the info level once it has returned
\* with the result r: the warning that it starts to clean up, and an error
\* when an unlink (or the reading of the disk usage) raised. The end of its
\* loop, with or without candidates left, logs nothing.
ReclaimLogged(r) ==
  (IF r.last \in {"done", "error"} THEN {"warning"} ELSE {})
    \cup (IF r.last = "error" THEN {"error"} ELSE {})

\* Top of the loop: the five-minute space check, when it is due and the free
\* space is below the floor, calls _check_storage. (Whether five minutes have
\* passed since the last check is left open.)
CaptureCheck ==
  /\ cpc = "top"
  /\ recording
  /\ Free(fs) < min_free_space
  /\ CheckStorageBegin
  /\ UNCHANGED <<now, fs, remote, idxFile, recording, fname, cyc,
                 oldest_recording, newFile, frames, flushed>>
  /\ UNCHANGED <<syncVars, fixedVars, svcVars>>

\* _check_storage called while the free space is not below the floor: no
\* caller in the repository does so, it is the method's own behaviour.
CheckStorageCall ==
  /\ cpc = "top"
  /\ recording
  /\ Free(fs) >= min_free_space
  /\ CheckStorageBegin
  /\ UNCHANGED <<now, fs, remote, idxFile, recording, fname, cyc,
                 oldest_recording, newFile, frames, flushed>>
  /\ UNCHANGED <<syncVars, fixedVars, svcVars>>

\* _check_storage's loop: pop the oldest candidate and unlink it; an error
\* ends the clean-up.
ReclaimUnlink ==
  /\ cpc = "reclaim"
  /\ IF StillOver(fs) /\ recordings # <<>>
     THEN \/ /\ Exists(fs, Head(recordings))
             /\ fs' = [fs EXCEPT ![Head(recordings)] = Absent]
             /\ flushed' = flushed \ {Head(recordings)}
             /\ oldest_recording' = Head(recordings)
             /\ recordings' = Tail(recordings)
             /\ cpc' = "reclaimMeta"
             /\ UNCHANGED reclaimRes
          \/ /\ cfg.faults \/ ~Exists(fs, Head(recordings))
             /\ CheckStorageEnd("error")
             /\ UNCHANGED <<fs, flushed>>
     ELSE /\ CheckStorageEnd("done")
          /\ UNCHANGED <<fs, flushed>>
  /\ UNCHANGED <<now, remote, idxFile, recording, fname, cyc, newFile, frames>>
  /\ UNCHANGED <<syncVars, fixedVars, svcVars>>

\* ... then its sidecar, when there is one; an error ends the clean-up.
ReclaimMeta ==
  /\ cpc = "reclaimMeta"
  /\ LET m == MetadataFilename(oldest_recording.i) IN
     IF Exists(fs, m)
     THEN \/ /\ fs' = [fs EXCEPT ![m] = Absent]
             /\ cpc' = "reclaim"
             /\ UNCHANGED <<recordings, oldest_recording, reclaimRes>>
          \/ /\ cfg.faults
             /\ CheckStorageEnd("error")
             /\ UNCHANGED fs
     ELSE /\ cpc' = "reclaim"
          /\ UNCHANGED <<fs, recordings, oldest_recording, reclaimRes>>
  /\ UNCHANGED <<now, remote, idxFile, recording, fname, cyc, newFile, frames, flushed>>
  /\ UNCHANGED <<syncVars, fixedVars, svcVars>>

\* The end of an iteration of the loop.
NextIteration ==
  /\ cpc' = "top"
  /\ fname' = 0

\* except Exception: log, time.sleep(5), next iteration of the loop.
Backoff ==
  /\ cpc' = AfterError
  /\ fname' = 0

\* while self.recording, get_recording_filename, audio.open and the
\* frame-reading loop: the cycle's name is the clock's second, then the
\* frames are read (record_seconds of them, or fewer when stop() is called
\* meanwhile); or the stream raises.
CaptureRecord(limit) ==
  /\ cpc \in {"top", "name"}
  /\ cpc = "top" => recording
  /\ now <= limit
  /\ cyc' = cyc + 1
  /\ now' = now + 1
  /\ \/ fname' = now /\ cpc' = "tmpOpen"
     \/ cfg.faults /\ Backoff
  /\ UNCHANGED <<fs, remote, idxFile, recording, recordings,
                 oldest_recording, reclaimRes, newFile, frames, flushed>>
  /\ UNCHANGED <<syncVars, fixedVars, svcVars>>

\* wave.open(temp_filename, 'wb'): the file is created, nothing of the frames
\* is in it yet; or IOError.
CaptureTmpOpen ==
  /\ cpc = "tmpOpen"
  /\ \/ /\ fs' = [fs EXCEPT ![TempFilename(fname)] = [c |-> cyc, n |-> Partial]]
        /\ newFile' = TRUE
        /\ reclaimRes' = NoReclaim
        /\ cpc' = "tmpWrite"
        /\ UNCHANGED fname
     \/ /\ cfg.faults
        /\ Backoff
        /\ UNCHANGED <<fs, newFile, reclaimRes>>
  /\ UNCHANGED <<now, remote, idxFile, recording, cyc, recordings, oldest_recording, frames, flushed>>
  /\ UNCHANGED <<syncVars, fixedVars, svcVars>>

\* writeframes and the close of the with block: all frames are in the file,
\* when the disk has room for them; or IOError (always so on a full disk),
\* which leaves what was written so far.
CaptureTmpWrite ==
  /\ cpc = "tmpWrite"
  /\ \/ /\ Free(fs) >= 1
        /\ fs' = [fs EXCEPT ![TempFilename(fname)] = [c |-> cyc, n |-> Full]]
        /\ cpc' = "rename"
        /\ UNCHANGED fname
     \/ /\ cfg.faults \/ Free(fs) < 1
        /\ Backoff
        /\ UNCHANGED fs
  /\ UNCHANGED <<now, remote, idxFile, recording, cyc, recordings,
                 oldest_recording, reclaimRes, newFile, frames, flushed>>
  /\ UNCHANGED <<syncVars, fixedVars, svcVars>>

\* os.rename(temp_filename, filename), which may raise IOError, then
\* os.sync(), which returns nothing and cannot fail.
CaptureRename ==
  /\ cpc = "rename"
  /\ \/ /\ fs' = [p \in DOMAIN fs |->
                    IF p = RecordingFilename(fname) THEN fs[TempFilename(fname)]
                    ELSE IF p = TempFilename(fname) THEN Absent
                    ELSE fs[p]]
        /\ newFile' = TRUE
        /\ flushed' = flushed \cup {RecordingFilename(fname)}
        /\ cpc' = "meta"
        /\ UNCHANGED fname
     \/ /\ cfg.faults
        /\ Backoff
        /\ UNCHANGED <<fs, newFile, flushed>>
  /\ UNCHANGED <<now, remote, idxFile, recording, cyc, recordings,
                 oldest_recording, reclaimRes, frames>>
  /\ UNCHANGED <<syncVars, fixedVars, svcVars>>

\* save_metadata(str(filename)): the sidecar; or it raises.
CaptureMeta ==
  /\ cpc = "meta"
  /\ \/ /\ fs' = [fs EXCEPT ![MetadataFilename(fname)] = [c |-> cyc, n |-> Full]]
        /\ newFile' = TRUE
        /\ NextIteration
     \/ /\ cfg.faults
        /\ Backoff
        /\ UNCHANGED <<fs, newFile>>
  /\ UNCHANGED <<now, remote, idxFile, recording, cyc, recordings,
                 oldest_recording, reclaimRes, frames, flushed>>
  /\ UNCHANGED <<syncVars, fixedVars, svcVars>>

Capture(limit) ==
  \/ Start
  \/ CaptureCheck
  \/ ReclaimUnlink
  \/ ReclaimMeta
  \/ CaptureRecord(limit)
  \/ CaptureTmpOpen
  \/ CaptureTmpWrite
  \/ CaptureRename
  \/ CaptureMeta

\* --------------------------------------------------------------- GPSTracker
GpsLogs(f) == {p \in DOMAIN f : p.k = "gps" /\ Exists(f, p)}

\* _cleanup_old_logs: unlink the oldest daily logs while more than
\* max_gps_logs are there (a daily log's mtime grows with its day).
RECURSIVE CleanupOldLogs(_)
CleanupOldLogs(f) ==
  IF Cardinality(GpsLogs(f)) > max_gps_logs
  THEN LET old == CHOOSE p \in GpsLogs(f) : \A q \in GpsLogs(f) : p.i <= q.i
       IN CleanupOldLogs([f EXCEPT ![old] = Absent])
  ELSE f

\* f.write(json.dumps(location) + '\n') on a file opened with 'a'.
AppendLine(f, p) == [f EXCEPT ![p] = [c |-> 0, n |-> IF Exists(f, p) THEN f[p].n + 1 ELSE 1]]

\* log_location with a fix: append one line to the day's log, then (about
\* one call in a hundred) clean up old logs.
LogLocation ==
  /\ fs[GpsFilename(Today)].n < MaxLines
  /\ \E cleanup \in BOOLEAN :
       fs' = IF cleanup THEN CleanupOldLogs(AppendLine(fs, GpsFilename(Today)))
             ELSE AppendLine(fs, GpsFilename(Today))
  /\ newFile' = (newFile \/ ~Exists(fs, GpsFilename(Today)))
  /\ UNCHANGED <<now, remote, idxFile>>
  /\ UNCHANGED <<captureVars, syncVars, fixedVars, svcVars>>

\* packet.mode of gpsd: 0 nothing seen, 1 no fix, 2 a 2D fix, 3 a 3D fix.
GpsModes == 0..3
None == "None"

\* A query that takes whatever gpsd reports for a sample.
GetCurrentLocationAny(avail, raised, mode) == "sample"
\* get_current_location: None when gpsd was not reached at start, when
\* gpsd.get_current() (or a field of the packet) raises, and when the mode
\* is below a 2D fix; the sample otherwise.
GetCurrentLocation(avail, raised, mode) ==
  IF ~avail THEN None
  ELSE IF raised THEN None
  ELSE IF mode >= 2 THEN "sample"
  ELSE None

\* start_tracking up to its loop: return at once when gpsd was not reached
\* at start, else raise the flag.
TrackBegin ==
  /\ gpc = "begin"
  /\ IF gps_available
     THEN /\ gps_running' = TRUE
          /\ gpc' = "loop"
     ELSE /\ gpc' = "done"
          /\ UNCHANGED gps_running
  /\ UNCHANGED <<now, fs, remote, idxFile, newFile, gps_available, nofix,
                 today, faultCyc>>
  /\ UNCHANGED <<captureVars, syncVars, fixedVars, mainVars, schedVars>>

\* log_location for the location the query returned: with a sample, append
\* one line to the day's log and (about one call in a hundred) clean up old
\* logs, or the write raises, which is logged; with None, nothing.
LogLocationOf(location, lines) ==
  IF location # None
  THEN \/ /\ fs[GpsFilename(today)].n < lines
          /\ \E cleanup \in BOOLEAN :
               fs' = IF cleanup THEN CleanupOldLogs(AppendLine(fs, GpsFilename(today)))
                     ELSE AppendLine(fs, GpsFilename(today))
          /\ newFile' = (newFile \/ ~Exists(fs, GpsFilename(today)))
       \/ /\ cfg.faults
          /\ UNCHANGED <<fs, newFile>>
  ELSE UNCHANGED <<fs, newFile>>

\* One turn of start_tracking's loop: while self.running, log_location();
\* an exception that reaches the loop ends it (except Exception, finally);
\* with the flag down the loop ends.
TrackTick(lines, ticks) ==
  /\ gpc = "loop"
  /\ IF gps_running
     THEN \/ \E raised \in BOOLEAN : \E mode \in GpsModes :
               /\ (~raised /\ mode < 2) => nofix < ticks
               /\ nofix' = IF ~raised /\ mode < 2 THEN nofix + 1 ELSE 0
               /\ LogLocationOf(GetCurrentLocation(gps_available, raised, mode), lines)
               /\ gpc' = "sleep"
               /\ UNCHANGED <<gps_running, faultCyc>>
          \/ /\ gpc' = "done"
             /\ gps_running' = FALSE
             /\ faultCyc' = cyc
             /\ UNCHANGED <<fs, newFile, nofix>>
     ELSE /\ gpc' = "done"
          /\ UNCHANGED <<fs, newFile, nofix, gps_running, faultCyc>>
  /\ UNCHANGED <<now, remote, idxFile, gps_available, today>>
  /\ UNCHANGED <<captureVars, syncVars, fixedVars, mainVars, schedVars>>

\* time.sleep(interval), then the loop's test again.
TrackSleep ==
  /\ gpc = "sleep"
  /\ gpc' = "loop"
  /\ UNCHANGED <<now, fs, remote, idxFile, newFile, gps_available, gps_running,
                 nofix, today, faultCyc>>
  /\ UNCHANGED <<captureVars, syncVars, fixedVars, mainVars, schedVars>>

\* The steps of the GPS thread (start_tracking).
StartTracking(lines, ticks) ==
  \/ TrackBegin
  \/ TrackTick(lines, ticks)
  \/ TrackSleep

\* stop_tracking(): the flag goes down.
StopTracking ==
  /\ gps_running
  /\ gps_running' = FALSE
  /\ UNCHANGED <<now, fs, remote, idxFile, newFile, gps_available, gpc, nofix,
                 today, faultCyc>>
  /\ UNCHANGED <<captureVars, syncVars, fixedVars, mainVars, schedVars>>

\* Midnight: the next calendar day begins.
DayTick ==
  /\ GpsFilename(today + 1) \in DOMAIN fs
  /\ today' = today + 1
  /\ UNCHANGED <<now, fs, remote, idxFile, newFile, faultCyc>>
  /\ UNCHANGED <<captureVars, syncVars, fixedVars, mainVars, gpsVars, schedVars>>

\* ------------------------------------------------------- ServerSynchronizer
\* The positions of a pass between choosing a file and the end of
\* _upload_file.
UploadStates == {"put", "saveOpen", "saveWrite"}

\* A filter that does not look at the file.
NeedsUploadUnchecked(f, idx, p) == p \notin idx
\* A filter that does not look at synced_files.
NeedsUploadAlways(f, idx, p) == Exists(f, p)
\* sync_files' filter on a directory entry: a file, and not in synced_files.
NeedsUpload(f, idx, p) == Exists(f, p) /\ p \notin idx

\* An _upload_file that records the path whatever put and chmod did.
IndexAfterUploadEager(idx, p, ok) == idx \cup {p}
\* _upload_file: the path joins synced_files only after put and chmod.
IndexAfterUpload(idx, p, ok) == IF ok THEN idx \cup {p} ELSE idx

\* A loop that returns False as soon as _upload_file does.
AfterFailedUploadAbort == "abort"
\* Where the pass goes after _upload_file returned False: the loop's next
\* entry.
AfterFailedUpload == "pick"

\* The pass returns (or raises): back to the scheduler.
EndPass(ret, at) ==
  /\ spc' = "idle"
  /\ lastPass' = [ret |-> ret, at |-> at]
  /\ prevRes' = IF ret = "True"
                THEN (IF passFailed THEN "dirty" ELSE "clean")
                ELSE "failed"
  /\ sdir' = 1
  /\ snap' = {}
  /\ cur' = NoPath

\* _upload_file returned False.
FailedUpload ==
  /\ passFailed' = TRUE
  /\ synced_files' = IndexAfterUpload(synced_files, cur, FALSE)
  /\ IF AfterFailedUpload = "pick"
     THEN /\ spc' = "pick"
          /\ cur' = NoPath
          /\ UNCHANGED <<lastPass, prevRes, sdir, snap>>
     ELSE EndPass("False", "upload")

\* sync_files up to the loop: the configuration check, _get_ssh_client (None:
\* return False), client.open_sftp() and _ensure_remote_directories (it
\* re-raises: return False). When open_sftp raises, the except clause
\* returns False and the finally clause then reads sftp, which was never
\* bound: the UnboundLocalError leaves sync_files.
SyncFiles ==
  /\ spc = "idle"
  /\ passes < MaxPasses
  /\ passes' = passes + 1
  /\ quiet' = IF prevRes \in {"clean", "dirty"} /\ ~newFile THEN prevRes ELSE "no"
  /\ idx0' = IF quiet' # "no" THEN synced_files ELSE {}
  /\ newFile' = FALSE
  /\ passFailed' = FALSE
  /\ IF configOk
     THEN \/ /\ spc' = "scan"
             /\ lastPass' = NoPass
             /\ UNCHANGED <<prevRes, sdir, snap, cur>>
          \/ \E r \in {<<"False", "connect">>, <<"raised", "open">>, <<"False", "ensure">>} :
               EndPass(r[1], r[2])
     ELSE EndPass("False", "config")
  /\ gone' = {}
  /\ UNCHANGED <<now, fs, remote, idxFile, synced_files>>
  /\ UNCHANGED <<captureVars, fixedVars>>

\* A pass begun at any time (the scheduler left out).
SyncStart == SyncFiles /\ UNCHANGED svcVars

\* local_dir.glob('**/*') lists the directory as the loop over it begins.
SyncScan ==
  /\ spc = "scan"
  /\ snap' = {p \in DOMAIN fs : p.k \in SyncDirs[sdir] /\ Exists(fs, p)}
  /\ spc' = "pick"
  /\ UNCHANGED <<now, fs, remote, idxFile, newFile, sdir, cur, synced_files,
                 lastPass, passes, passFailed, idx0, prevRes, quiet, gone>>
  /\ UNCHANGED <<captureVars, fixedVars, svcVars>>

\* The next entry of the listing (in the order the OS gave), filtered by
\* is_file() and synced_files, and sftp.stat(remote_parent) for it (creating
\* the parents when it is missing; any other error leaves the loop and the
\* pass returns False). After the last entry the next directory, and after
\* the last directory return True.
SyncPick ==
  /\ spc = "pick"
  /\ IF snap = {}
     THEN IF sdir < Len(SyncDirs)
          THEN /\ sdir' = sdir + 1
               /\ spc' = "scan"
               /\ UNCHANGED <<lastPass, prevRes, snap, cur>>
          ELSE EndPass("True", "none")
     ELSE \E p \in snap :
            IF NeedsUpload(fs, synced_files, p)
            THEN \/ /\ snap' = snap \ {p}
                    /\ cur' = p
                    /\ spc' = "put"
                    /\ UNCHANGED <<sdir, lastPass, prevRes>>
                 \/ EndPass("False", "stat")
            ELSE /\ snap' = snap \ {p}
                 /\ UNCHANGED <<cur, spc, sdir, lastPass, prevRes>>
  /\ UNCHANGED <<now, fs, remote, idxFile, newFile, synced_files, passes,
                 passFailed, idx0, quiet, gone>>
  /\ UNCHANGED <<captureVars, fixedVars, svcVars>>

\* _upload_file up to synced_files.add: sftp.put sends the whole local file
\* as it is now to the mirrored remote path, sftp.chmod, and the path joins
\* synced_files. put raises when the local file is gone or the transport
\* fails, chmod when the transport fails: _upload_file returns False.
SyncPut ==
  /\ spc = "put"
  /\ \/ /\ Exists(fs, cur)
        /\ remote' = [remote EXCEPT ![cur] = fs[cur]]
        /\ \/ /\ synced_files' = IndexAfterUpload(synced_files, cur, TRUE)
              /\ spc' = "saveOpen"
              /\ UNCHANGED <<passFailed, lastPass, prevRes, sdir, snap, cur>>
           \/ FailedUpload
        /\ UNCHANGED gone
     \/ /\ FailedUpload
        /\ gone' = IF Exists(fs, cur) THEN gone ELSE gone \cup {cur}
        /\ UNCHANGED remote
  /\ UNCHANGED <<now, fs, idxFile, newFile, passes, idx0, quiet>>
  /\ UNCHANGED <<captureVars, fixedVars, svcVars>>

\* _save_sync_status, open(sync_log_file, 'w'): the file is truncated; or
\* open raises, which is logged, and _upload_file returns True.
SyncSaveOpen ==
  /\ spc = "saveOpen"
  /\ \/ /\ idxFile' = [st |-> "trunc", files |-> {}]
        /\ spc' = "saveWrite"
        /\ UNCHANGED cur
     \/ /\ spc' = "pick"
        /\ cur' = NoPath
        /\ UNCHANGED idxFile
  /\ UNCHANGED <<now, fs, remote, newFile, sdir, snap, synced_files, lastPass,
                 passes, passFailed, idx0, prevRes, quiet, gone>>
  /\ UNCHANGED <<captureVars, fixedVars, svcVars>>

\* _save_sync_status, json.dump and close: the whole index is in the file;
\* or the write raises, which is logged, and the file stays cut.
SyncSaveWrite ==
  /\ spc = "saveWrite"
  /\ \/ idxFile' = [st |-> "ok", files |-> synced_files]
     \/ UNCHANGED idxFile
  /\ spc' = "pick"
  /\ cur' = NoPath
  /\ UNCHANGED <<now, fs, remote, newFile, sdir, snap, synced_files, lastPass,
                 passes, passFailed, idx0, prevRes, quiet, gone>>
  /\ UNCHANGED <<captureVars, fixedVars, svcVars>>

Sync ==
  \/ SyncStart
  \/ SyncScan
  \/ SyncPick
  \/ SyncPut
  \/ SyncSaveOpen
  \/ SyncSaveWrite

\* ------------------------------------------------------------------- crash
\* The device loses power and the service starts again: the files stay as
\* they are, the threads are gone, and ServerSynchronizer.__init__ loads the
\* index from sync_status.json. preCrash keeps the file whose upload was cut
\* between the collector's acceptance and the end of the index write, and
\* the other paths synced_files held.
Crash ==
  /\ crashes < MaxCrashes
  /\ crashes' = crashes + 1
  /\ preCrash' = [mid |-> spc \in {"saveOpen", "saveWrite"},
                  file |-> IF spc \in {"saveOpen", "saveWrite"} THEN cur ELSE NoPath,
                  confirmed |-> synced_files \ {cur}]
  /\ synced_files' = LoadSyncStatus(idxFile)
  /\ recording' = FALSE
  /\ cpc' = "stopped"
  /\ fname' = 0
  /\ recordings' = <<>>
  /\ oldest_recording' = NoPath
  /\ spc' = "idle"
  /\ sdir' = 1
  /\ snap' = {}
  /\ cur' = NoPath
  /\ lastPass' = NoPass
  /\ passFailed' = FALSE
  /\ idx0' = {}
  /\ newFile' = FALSE
  /\ prevRes' = "none"
  /\ quiet' = "no"
  /\ reclaimRes' = NoReclaim
  /\ gone' = {}
  /\ UNCHANGED <<now, fs, remote, idxFile, cyc, configOk, passes, cfg, frames,
                 flushed, svcVars>>

\* The whole agent: the recording thread, the location thread, the sync
\* scheduler's passes, and crashes.
Next ==
  \/ Capture(MaxTime)
  \/ LogLocation
  \/ Sync
  \/ Crash

Spec == Init /\ [][Next]_vars

\* The agent in one process lifetime.
NextSync ==
  \/ Capture(MaxTime)
  \/ LogLocation
  \/ Sync

SpecSync == Init /\ [][NextSync]_vars

\* The recording thread and crashes, over a longer clock.
NextCapture ==
  \/ Capture(MaxTimeAlone)
  \/ Crash

SpecCapture == Init /\ [][NextCapture]_vars

\* ------------------------------------------------- the recorder, stoppable
\* The small disk with I/O errors, and a disk of three without.
RecorderDisks ==
  {SmallDisk,
   [total |-> 3, other |-> 0, max_storage |-> 3, min_free_space |-> 1, faults |-> FALSE]}

InitRecorder ==
  /\ now = 1
  /\ cyc = 0
  /\ cfg \in RecorderDisks
  /\ fs = [p \in Paths |-> Absent]
  /\ remote = [p \in Paths |-> Absent]
  /\ idxFile = [st |-> "absent", files |-> {}]
  /\ recording = FALSE
  /\ cpc = "stopped"
  /\ fname = 0
  /\ recordings = <<>>
  /\ oldest_recording = NoPath
  /\ spc = "idle"
  /\ sdir = 1
  /\ snap = {}
  /\ cur = NoPath
  /\ synced_files = {}
  /\ lastPass = NoPass
  /\ configOk = TRUE
  /\ passes = 0
  /\ crashes = 0
  /\ passFailed = FALSE
  /\ idx0 = {}
  /\ newFile = FALSE
  /\ prevRes = "none"
  /\ quiet = "no"
  /\ preCrash = NoCrash
  /\ reclaimRes = NoReclaim
  /\ frames = 0
  /\ flushed = {}
  /\ gone = {}
  /\ ServiceOff

\* The steps of the recording thread (record_audio).
RecordAudio ==
  \/ CaptureCheck
  \/ ReclaimUnlink
  \/ ReclaimMeta
  \/ CaptureRecord(MaxTimeAlone)
  \/ CaptureTmpOpen
  \/ CaptureTmpWrite
  \/ CaptureRename
  \/ CaptureMeta
  \/ CaptureExit

\* start() and stop() called at any time, and the thread between them.
NextRecorder ==
  \/ Start
  \/ Stop
  \/ RecordAudio

\* The thread, once started, is scheduled until it ends.
SpecRecorder == InitRecorder /\ [][NextRecorder]_vars /\ WF_vars(RecordAudio)

\* ------------------------------------------- the recorder, chunk by chunk
\* get_recording_filename and audio.open: the cycle's name is the clock's
\* second, the stream is open and frames is empty; or audio.open raises.
CaptureOpen(limit) ==
  /\ cpc \in {"top", "name"}
  /\ cpc = "top" => recording
  /\ now <= limit
  /\ cyc' = cyc + 1
  /\ now' = now + 1
  /\ \/ /\ fname' = now
        /\ frames' = 0
        /\ cpc' = "read"
     \/ /\ cfg.faults
        /\ Backoff
        /\ UNCHANGED frames
  /\ UNCHANGED <<fs, remote, idxFile, recording, recordings,
                 oldest_recording, reclaimRes, newFile, flushed>>
  /\ UNCHANGED <<syncVars, fixedVars, svcVars>>

\* One turn of the for loop: break when the flag is down, else
\* stream.read(chunk, exception_on_overflow=False): the chunk joins frames
\* (an input overflow raises nothing and returns its data too); or the read
\* raises, which leaves the loop and the try block for the outer except:
\* the frames list is dropped with the iteration. After the last chunk the
\* stream is closed and the frames go to the file.
CaptureRead ==
  /\ cpc = "read"
  /\ IF frames < MaxChunks /\ recording
     THEN \/ /\ frames' = frames + 1
             /\ UNCHANGED <<cpc, fname>>
          \/ /\ cfg.faults
             /\ Backoff
             /\ frames' = 0
     ELSE /\ cpc' = "tmpOpen"
          /\ UNCHANGED <<frames, fname>>
  /\ UNCHANGED <<now, fs, remote, idxFile, recording, cyc, recordings,
                 oldest_recording, reclaimRes, newFile, flushed>>
  /\ UNCHANGED <<syncVars, fixedVars, svcVars>>

\* The steps of the recording thread, with the frames read one chunk at a
\* time.
RecordFrames ==
  \/ CaptureCheck
  \/ ReclaimUnlink
  \/ ReclaimMeta
  \/ CaptureOpen(MaxTimeAlone)
  \/ CaptureRead
  \/ CaptureTmpOpen
  \/ CaptureTmpWrite
  \/ CaptureRename
  \/ CaptureMeta
  \/ CaptureExit

NextFrames ==
  \/ Start
  \/ Stop
  \/ RecordFrames

SpecFrames == InitRecorder /\ [][NextFrames]_vars

\* ------------------------------------------ the recorder by the wall clock
\* get_recording_filename and audio.open: the cycle's name is the second the
\* wall clock shows now ("%Y%m%d_%H%M%S" of datetime.now()); or audio.open
\* raises and the thread sleeps five seconds.
CaptureOpenNow ==
  /\ cpc \in {"top", "name"}
  /\ cpc = "top" => recording
  /\ now \in TS
  /\ cyc < MaxCycles
  /\ cyc' = cyc + 1
  /\ \/ /\ fname' = now
        /\ frames' = 0
        /\ cpc' = "read"
        /\ UNCHANGED now
     \/ /\ cfg.faults
        /\ Backoff
        /\ now' = now + 1
        /\ UNCHANGED frames
  /\ UNCHANGED <<fs, remote, idxFile, recording, recordings,
                 oldest_recording, reclaimRes, newFile, flushed>>
  /\ UNCHANGED <<syncVars, fixedVars, svcVars>>

\* One turn of the for loop, by the wall clock: a chunk is 64 ms of sound;
\* with the last chunk the cycle's record_seconds have passed. A read that
\* raises is followed by the sleep of five seconds.
CaptureReadTimed ==
  /\ cpc = "read"
  /\ IF frames < MaxChunks /\ recording
     THEN \/ /\ frames' = frames + 1
             /\ now' = IF frames + 1 = MaxChunks THEN now + 1 ELSE now
             /\ UNCHANGED <<cpc, fname>>
          \/ /\ cfg.faults
             /\ Backoff
             /\ frames' = 0
             /\ now' = now + 1
     ELSE /\ cpc' = "tmpOpen"
          /\ UNCHANGED <<frames, fname, now>>
  /\ UNCHANGED <<fs, remote, idxFile, recording, cyc, recordings,
                 oldest_recording, reclaimRes, newFile, flushed>>
  /\ UNCHANGED <<syncVars, fixedVars, svcVars>>

\* A second passes on the wall clock.
ClockTick ==
  /\ now \in TS
  /\ now' = now + 1
  /\ UNCHANGED <<fs, remote, idxFile, newFile>>
  /\ UNCHANGED <<captureVars, syncVars, fixedVars, svcVars>>

\* datetime.now() is the local time without zone: it goes back when the
\* clock is corrected and at the end of daylight saving time.
ClockBack ==
  /\ \E t \in TS : t < now /\ now' = t
  /\ UNCHANGED <<fs, remote, idxFile, newFile>>
  /\ UNCHANGED <<captureVars, syncVars, fixedVars, svcVars>>

\* The steps of the recording thread on a disk with room, where no clean-up
\* comes due.
RecordNamed ==
  \/ CaptureOpenNow
  \/ CaptureReadTimed
  \/ CaptureTmpOpen
  \/ CaptureTmpWrite
  \/ CaptureRename
  \/ CaptureMeta
  \/ CaptureExit

\* The disk of three without I/O errors.
InitNames == InitRecorder /\ ~cfg.faults

\* start() and stop() called at any time, the thread, and the wall clock.
NextNames ==
  \/ Start
  \/ Stop
  \/ RecordNamed
  \/ ClockTick
  \/ ClockBack

SpecNames == InitNames /\ [][NextNames]_vars

\* ------------------------------------------------------ BirdRecorderService
\* What a capture cycle keeps beside the flag and the thread's position.
cycleVars == <<fname, cyc, recordings, oldest_recording, reclaimRes, frames, flushed>>

\* start(): self.running = True.
ServiceStart ==
  /\ mpc = "init"
  /\ ~running
  /\ running' = TRUE
  /\ mpc' = "startGps"
  /\ UNCHANGED <<now, fs, remote, idxFile, newFile, today, faultCyc>>
  /\ UNCHANGED <<captureVars, syncVars, fixedVars, gpsVars, schedVars>>

\* A supervisor that starts the GPS thread whatever gps_available is.
StartGpsTrackingAlways ==
  /\ mpc = "startGps"
  /\ gpc' = "begin"
  /\ mpc' = "startRec"
  /\ UNCHANGED <<now, fs, remote, idxFile, newFile, running, gps_available,
                 gps_running, nofix, today, faultCyc>>
  /\ UNCHANGED <<captureVars, syncVars, fixedVars, schedVars>>

\* start_gps_tracking(): the GPS thread is started when gps_available, and
\* not otherwise.
StartGpsTracking ==
  /\ mpc = "startGps"
  /\ gpc' = IF gps_available THEN "begin" ELSE gpc
  /\ mpc' = "startRec"
  /\ UNCHANGED <<now, fs, remote, idxFile, newFile, running, gps_available,
                 gps_running, nofix, today, faultCyc>>
  /\ UNCHANGED <<captureVars, syncVars, fixedVars, schedVars>>

\* start_recording(): audio_recorder.start() raises the flag and starts the
\* recording thread.
StartRecording ==
  /\ mpc = "startRec"
  /\ recording' = TRUE
  /\ cpc' = "top"
  /\ mpc' = "startSync"
  /\ UNCHANGED <<now, fs, remote, idxFile, newFile, running, today, faultCyc>>
  /\ UNCHANGED <<cycleVars, syncVars, fixedVars, gpsVars, schedVars>>

\* start_sync_scheduler(): the sync_loop thread is started; the main thread
\* then sleeps in its loop while self.running.
StartSyncScheduler ==
  /\ mpc = "startSync"
  /\ sched' = "top"
  /\ mpc' = "serve"
  /\ UNCHANGED <<now, fs, remote, idxFile, newFile, running, next_sync,
                 lastSyncDay, today, faultCyc>>
  /\ UNCHANGED <<captureVars, syncVars, fixedVars, gpsVars>>

\* SIGINT or SIGTERM while the service runs: handle_shutdown calls stop(),
\* which lowers self.running.
HandleShutdown ==
  /\ mpc = "serve"
  /\ running
  /\ running' = FALSE
  /\ mpc' = "stopRec"
  /\ UNCHANGED <<now, fs, remote, idxFile, newFile, today, faultCyc>>
  /\ UNCHANGED <<captureVars, syncVars, fixedVars, gpsVars, schedVars>>

\* stop(): audio_recorder.stop() lowers the recorder's flag ...
StopRecording ==
  /\ mpc = "stopRec"
  /\ recording' = FALSE
  /\ mpc' = "joinRec"
  /\ UNCHANGED <<now, fs, remote, idxFile, newFile, running, cpc, today, faultCyc>>
  /\ UNCHANGED <<cycleVars, syncVars, fixedVars, gpsVars, schedVars>>

\* ... and joins the recording thread, without a timeout: it returns when
\* the thread has ended.
JoinRecording ==
  /\ mpc = "joinRec"
  /\ cpc = "stopped"
  /\ mpc' = "stopGps"
  /\ UNCHANGED <<now, fs, remote, idxFile, newFile, running, today, faultCyc>>
  /\ UNCHANGED <<captureVars, syncVars, fixedVars, gpsVars, schedVars>>

\* stop(): gps_tracker.stop_tracking() lowers the tracker's flag.
StopGpsTracking ==
  /\ mpc = "stopGps"
  /\ gps_running' = FALSE
  /\ mpc' = "joinGps"
  /\ UNCHANGED <<now, fs, remote, idxFile, newFile, running, gps_available,
                 gpc, nofix, today, faultCyc>>
  /\ UNCHANGED <<captureVars, syncVars, fixedVars, schedVars>>

\* stop(): gps_thread.join(timeout=5), when there is a live GPS thread: it
\* returns when the thread has ended or after five seconds.
JoinGps ==
  /\ mpc = "joinGps"
  /\ mpc' = "joinSync"
  /\ UNCHANGED <<now, fs, remote, idxFile, newFile, running, today, faultCyc>>
  /\ UNCHANGED <<captureVars, syncVars, fixedVars, gpsVars, schedVars>>

\* stop(): sync_thread.join(timeout=5), likewise; stop() returns.
JoinSync ==
  /\ mpc = "joinSync"
  /\ mpc' = "stopped"
  /\ UNCHANGED <<now, fs, remote, idxFile, newFile, running, today, faultCyc>>
  /\ UNCHANGED <<captureVars, syncVars, fixedVars, gpsVars, schedVars>>

\* The steps of the main thread: start(), and stop() from the signal
\* handler.
Main ==
  \/ ServiceStart
  \/ StartGpsTracking
  \/ StartRecording
  \/ StartSyncScheduler
  \/ HandleShutdown
  \/ StopRecording
  \/ JoinRecording
  \/ StopGpsTracking
  \/ JoinGps
  \/ JoinSync

\* A scheduler that takes the current day for the next sync.
NextMidnightNow(d) == d
\* (now + timedelta(days=1)).replace(hour=0, ...): the coming midnight, as
\* the day it begins.
NextMidnight(d) == d + 1

\* A sync_loop that ends when sync_files raises.
AfterSyncErrorEnds == "done"
\* Where sync_loop is after sync_files raised: in except Exception, asleep
\* for 300 s before the next turn of its loop.
AfterSyncError == "errsleep"

\* sync_loop, top of the outer loop: while self.running, compute next_sync.
SchedTop ==
  /\ sched = "top"
  /\ IF running
     THEN /\ next_sync' = NextMidnight(today)
          /\ sched' = "wait"
     ELSE /\ sched' = "done"
          /\ UNCHANGED next_sync
  /\ UNCHANGED <<now, fs, remote, idxFile, newFile, lastSyncDay, today, faultCyc>>
  /\ UNCHANGED <<captureVars, syncVars, fixedVars, mainVars, gpsVars>>

\* The wait loop has ended at next_sync and `if self.running` found the flag
\* up: the call of sync_files() is next.
SchedCheck ==
  /\ sched = "wait"
  /\ today >= next_sync
  /\ running
  /\ sched' = "go"
  /\ UNCHANGED <<now, fs, remote, idxFile, newFile, next_sync, lastSyncDay,
                 today, faultCyc>>
  /\ UNCHANGED <<captureVars, syncVars, fixedVars, mainVars, gpsVars>>

\* logger.info and self.server_sync.sync_files(): the pass begins.
SchedCall ==
  /\ sched = "go"
  /\ SyncFiles
  /\ sched' = "call"
  /\ lastSyncDay' = today
  /\ UNCHANGED <<next_sync, today, faultCyc>>
  /\ UNCHANGED <<mainVars, gpsVars>>

\* The wait loop has ended because the service is stopping: no call.
SchedSkip ==
  /\ sched = "wait"
  /\ ~running
  /\ sched' = "top"
  /\ UNCHANGED <<now, fs, remote, idxFile, newFile, next_sync, lastSyncDay,
                 today, faultCyc>>
  /\ UNCHANGED <<captureVars, syncVars, fixedVars, mainVars, gpsVars>>

\* sync_files() has returned, or raised into except Exception (logged).
SchedReturn ==
  /\ sched = "call"
  /\ spc = "idle"
  /\ sched' = IF lastPass.ret = "raised" THEN AfterSyncError ELSE "top"
  /\ faultCyc' = IF lastPass.ret = "True" THEN faultCyc ELSE cyc
  /\ UNCHANGED <<now, fs, remote, idxFile, newFile, next_sync, lastSyncDay, today>>
  /\ UNCHANGED <<captureVars, syncVars, fixedVars, mainVars, gpsVars>>

\* time.sleep(300) is over: the next turn of the outer loop.
SchedErrSleep ==
  /\ sched = "errsleep"
  /\ sched' = "top"
  /\ UNCHANGED <<now, fs, remote, idxFile, newFile, next_sync, lastSyncDay,
                 today, faultCyc>>
  /\ UNCHANGED <<captureVars, syncVars, fixedVars, mainVars, gpsVars>>

\* The steps of the scheduler thread, the pass it runs included.
SyncLoop ==
  \/ SchedTop
  \/ SchedCheck
  \/ SchedCall
  \/ SchedSkip
  \/ SchedReturn
  \/ SchedErrSleep
  \/ SyncScan
  \/ SyncPick
  \/ SyncPut
  \/ SyncSaveOpen
  \/ SyncSaveWrite

\* The steps of the recording thread beside the other threads.
RecordingThread ==
  \/ CaptureCheck
  \/ ReclaimUnlink
  \/ ReclaimMeta
  \/ CaptureRecord(MaxTime)
  \/ CaptureTmpOpen
  \/ CaptureTmpWrite
  \/ CaptureRename
  \/ CaptureMeta
  \/ CaptureExit

\* The service as main() constructs it, nothing recorded yet: gpsd reached
\* or not (avail), the server configured or not (conf), on the disk, and
\* with daily logs for the days given.
InitServiceOn(avail, conf, disk, days) ==
  /\ today = Today
  /\ gps_available \in avail
  /\ configOk \in conf
  /\ cfg = disk
  /\ fs = [p \in Paths \cup GpsLogsOf(days) |-> Absent]
  /\ remote = [p \in Paths \cup GpsLogsOf(days) |-> Absent]
  /\ running = FALSE
  /\ mpc = "init"
  /\ gpc = "none"
  /\ gps_running = FALSE
  /\ nofix = 0
  /\ sched = "none"
  /\ next_sync = 0
  /\ lastSyncDay = 0
  /\ faultCyc = -1
  /\ now = 1
  /\ cyc = 0
  /\ idxFile = [st |-> "absent", files |-> {}]
  /\ recording = FALSE
  /\ cpc = "stopped"
  /\ fname = 0
  /\ recordings = <<>>
  /\ oldest_recording = NoPath
  /\ spc = "idle"
  /\ sdir = 1
  /\ snap = {}
  /\ cur = NoPath
  /\ synced_files = {}
  /\ lastPass = NoPass
  /\ passes = 0
  /\ crashes = 0
  /\ passFailed = FALSE
  /\ idx0 = {}
  /\ newFile = FALSE
  /\ prevRes = "none"
  /\ quiet = "no"
  /\ preCrash = NoCrash
  /\ reclaimRes = NoReclaim
  /\ frames = 0
  /\ flushed = {}
  /\ gone = {}

\* The small disk without I/O errors.
QuietDisk == [SmallDisk EXCEPT !.faults = FALSE]

\* The server is configured, gpsd reached or not.
InitService == InitServiceOn(BOOLEAN, {TRUE}, QuietDisk, 1..MaxServiceDays)

\* The main thread, the three threads it starts, and the days.
NextService ==
  \/ Main
  \/ RecordingThread
  \/ StartTracking(MaxServiceTicks, MaxServiceTicks)
  \/ SyncLoop
  \/ DayTick

SpecService == InitService /\ [][NextService]_vars

\* The service where gpsd was not reached at start, on the small disk with
\* I/O errors, over more days: no GPS thread exists.
InitServiceNoGps == InitServiceOn({FALSE}, BOOLEAN, SmallDisk, 1..MaxDays)

NextServiceNoGps ==
  \/ Main
  \/ RecordingThread
  \/ SyncLoop
  \/ DayTick

SpecServiceNoGps == InitServiceNoGps /\ [][NextServiceNoGps]_vars

\* ------------------------------------------------- the GPS tracker alone
\* The tracker is started on a data directory that is empty or holds the
\* logs of the max_gps_logs - 1 days before today, with gpsd reached or not.
InitTracker ==
  /\ today = max_gps_logs
  /\ gps_available \in BOOLEAN
  /\ \E old \in {{}, 1..(max_gps_logs - 1)} :
       fs = [p \in GpsLogsOf(1..(max_gps_logs - 1 + MaxDays)) |->
               IF p.i \in old THEN [c |-> 0, n |-> 1] ELSE Absent]
  /\ remote = [p \in GpsLogsOf(1..(max_gps_logs - 1 + MaxDays)) |-> Absent]
  /\ gpc = "begin"
  /\ gps_running = FALSE
  /\ nofix = 0
  /\ now = 1
  /\ cyc = 0
  /\ cfg \in RecorderDisks
  /\ idxFile = [st |-> "absent", files |-> {}]
  /\ recording = FALSE
  /\ cpc = "stopped"
  /\ fname = 0
  /\ recordings = <<>>
  /\ oldest_recording = NoPath
  /\ spc = "idle"
  /\ sdir = 1
  /\ snap = {}
  /\ cur = NoPath
  /\ synced_files = {}
  /\ lastPass = NoPass
  /\ configOk = TRUE
  /\ passes = 0
  /\ crashes = 0
  /\ passFailed = FALSE
  /\ idx0 = {}
  /\ newFile = FALSE
  /\ prevRes = "none"
  /\ quiet = "no"
  /\ preCrash = NoCrash
  /\ reclaimRes = NoReclaim
  /\ frames = 0
  /\ flushed = {}
  /\ gone = {}
  /\ running = FALSE
  /\ mpc = "init"
  /\ sched = "none"
  /\ next_sync = 0
  /\ lastSyncDay = 0
  /\ faultCyc = -1

\* start_tracking in its thread, stop_tracking at any time, and the days.
NextTracker ==
  \/ StartTracking(MaxLines, MaxNoFix)
  \/ StopTracking
  \/ DayTick

SpecTracker == InitTracker /\ [][NextTracker]_vars

\* ------------------------------------------------------- the clean-up alone
\* The disks and settings the clean-up is run on: a budget of ten beside
\* eight units of other data; a disk of three with a floor of one and a
\* budget that does not bind; a budget of two beside one unit of other
\* data on a disk with room to spare.
ReclaimDisks ==
  {[total |-> 12, other |-> 8, max_storage |-> 10, min_free_space |-> 1, faults |-> b] :
     b \in BOOLEAN}
  \cup {[total |-> 3, other |-> 0, max_storage |-> 3, min_free_space |-> 1, faults |-> b] :
     b \in BOOLEAN}
  \cup {[total |-> 12, other |-> 1, max_storage |-> 2, min_free_space |-> 1, faults |-> b] :
     b \in BOOLEAN}

\* The recorder starts on a directory that earlier runs left: some of the
\* recordings 1..MaxOld, each with or without its sidecar, with modification
\* times in any order (a stepped clock, a copied or restored file), and
\* within the limits of _check_storage. The day's location log is there with
\* one line; an earlier pass sent it and wrote the index file.
InitReclaim ==
  /\ now = MaxOld + 1
  /\ cyc = MaxOld
  /\ cfg \in ReclaimDisks
  /\ \E old \in SUBSET (1..MaxOld) : \E cars \in SUBSET old :
       \E mt \in Permutations(1..MaxOld) :
         fs = [p \in RecordingsOf(1..(MaxOld + MaxNew)) \cup GpsDir |->
                 IF p.k = "wav" /\ p.i \in old THEN [c |-> mt[p.i], n |-> Full]
                 ELSE IF p.k = "json" /\ p.i \in cars THEN [c |-> mt[p.i], n |-> Full]
                 ELSE IF p.k = "gps" THEN [c |-> 0, n |-> 1]
                 ELSE Absent]
  /\ ~OverLimit(fs)
  /\ remote = [p \in RecordingsOf(1..(MaxOld + MaxNew)) \cup GpsDir |->
                 IF p.k = "gps" THEN [c |-> 0, n |-> 1] ELSE Absent]
  /\ idxFile = [st |-> "ok", files |-> GpsDir]
  /\ recording = FALSE
  /\ cpc = "stopped"
  /\ fname = 0
  /\ recordings = <<>>
  /\ oldest_recording = NoPath
  /\ spc = "idle"
  /\ sdir = 1
  /\ snap = {}
  /\ cur = NoPath
  /\ synced_files = LoadSyncStatus(idxFile)
  /\ lastPass = NoPass
  /\ configOk = TRUE
  /\ passes = 0
  /\ crashes = 0
  /\ passFailed = FALSE
  /\ idx0 = {}
  /\ newFile = FALSE
  /\ prevRes = "none"
  /\ quiet = "no"
  /\ preCrash = NoCrash
  /\ reclaimRes = NoReclaim
  /\ frames = 0
  /\ flushed = {}
  /\ gone = {}
  /\ ServiceOff

\* The recording thread, and _check_storage called outside the admission
\* check.
NextReclaim ==
  \/ Capture(MaxOld + MaxNew)
  \/ CheckStorageCall

SpecReclaim == InitReclaim /\ [][NextReclaim]_vars

\* ------------------------------------------------- fifteen captures in a row
\* A budget of ten recordings (MAX_STORAGE_GB), a floor of one
\* (SSD_MIN_FREE_GB), on a disk that holds ten, eleven or twenty of them;
\* no I/O error but the full disk.
ScenarioDisks ==
  {[total |-> t, other |-> 0, max_storage |-> 10, min_free_space |-> 1, faults |-> FALSE] :
     t \in {10, 11, 20}}

\* An empty directory.
InitScenario ==
  /\ now = 1
  /\ cyc = 0
  /\ cfg \in ScenarioDisks
  /\ fs = [p \in RecordingsOf(1..15) |-> Absent]
  /\ remote = [p \in RecordingsOf(1..15) |-> Absent]
  /\ idxFile = [st |-> "absent", files |-> {}]
  /\ recording = FALSE
  /\ cpc = "stopped"
  /\ fname = 0
  /\ recordings = <<>>
  /\ oldest_recording = NoPath
  /\ spc = "idle"
  /\ sdir = 1
  /\ snap = {}
  /\ cur = NoPath
  /\ synced_files = {}
  /\ lastPass = NoPass
  /\ configOk = TRUE
  /\ passes = 0
  /\ crashes = 0
  /\ passFailed = FALSE
  /\ idx0 = {}
  /\ newFile = FALSE
  /\ prevRes = "none"
  /\ quiet = "no"
  /\ preCrash = NoCrash
  /\ reclaimRes = NoReclaim
  /\ frames = 0
  /\ flushed = {}
  /\ gone = {}
  /\ ServiceOff

\* The recording thread through fifteen cycles.
NextScenario == Capture(15)

SpecScenario == InitScenario /\ [][NextScenario]_vars

\* ================================================================== claims

\* C1: in every reachable state, crashes and I/O errors at any step of a
\* capture cycle included, a file at a canonical capture path
\* {device_id}_{timestamp}.wav holds all the frames written for its cycle:
\* the canonical path never holds a partially written file.
C1_CanonicalNeverPartial ==
  \A t \in TS : Exists(fs, RecordingFilename(t)) => fs[RecordingFilename(t)].n = Full

\* A crash cut one cycle in the middle of its write (its temporary file is
\* there, unfinished) and another cycle put its file at the canonical path.
C1_Witness ==
  /\ crashes > 0
  /\ \E t \in TS : Exists(fs, RecordingFilename(t))
  /\ \E t \in TS : Exists(fs, TempFilename(t)) /\ fs[TempFilename(t)].n = Partial

\* C2: neither the clean-up's candidate list nor the sync pass ever selects a
\* file that is not at its canonical post-rename path: the temporary file of
\* a capture in progress is never a candidate of _check_storage and never
\* the file a sync pass transfers.
C2_OnlyCanonicalSelected ==
  /\ \A i \in DOMAIN recordings : recordings[i].k = "wav"
  /\ oldest_recording.k \in {"wav", "none"}
  /\ spc \in UploadStates => cur.k # "tmp"

C4_CrashResendsOnlyInterrupted ==
  preCrash.mid => ~(spc \in UploadStates /\ cur \in preCrash.confirmed)

\* C5: at every point in time the durable index file holds a complete index
\* (the previous one or the new one), never a cut one.
C5_IndexFileAlwaysComplete == idxFile.st # "trunc"

\* No pass has begun since the restart.
FreshAfterCrash == crashes > 0 /\ spc = "idle" /\ lastPass = NoPass

\* C6: each file's path is in the persisted index before the next transfer
\* begins, hence a crash makes at most one accepted file missing from the
\* index the restarted agent loads (at most one file is sent again).
C6_CrashCostsAtMostOne ==
  FreshAfterCrash =>
    Cardinality((preCrash.confirmed \cup ({preCrash.file} \ {NoPath})) \ synced_files) <= 1

\* C7: every path in the sync index, in memory and in the durable file, was
\* transferred to the collector and accepted before: the collector holds a
\* file at its mirrored path. A failed upload leaves no entry.
C7_NoSpeculativeEntries ==
  \A p \in synced_files \cup LoadSyncStatus(idxFile) : Exists(remote, p)

\* An upload of this pass failed and its file is outside the index, while
\* the index, in memory and on disk, holds other entries.
C7_Witness ==
  /\ passFailed
  /\ idxFile.st = "ok"
  /\ idxFile.files # {}
  /\ \E p \in Paths : Exists(fs, p) /\ p \notin synced_files /\ ~Exists(remote, p)

\* C8: every file recorded as transferred has, at its mirrored remote path,
\* the content the local file has.
C8_RoundTrip ==
  \A p \in synced_files : Exists(fs, p) => remote[p] = fs[p]

C10_ConnectFailureEndsCleanly ==
  lastPass.at \in {"connect", "open"} => lastPass.ret = "False"

\* C11: a clean-up that begins with the directory above the budget deletes a
\* recording only while the directory's usage is above the hysteresis target
\* (nine tenths of the budget) or the free space below the floor: as many of
\* the oldest recordings as are needed to reach the target and none further.
C11_EvictionConverges ==
  (cpc = "reclaimMeta" /\ reclaimRes.over) =>
     \/ (DirUsed(fs) + 1) * 10 > max_storage * 9
     \/ Free(fs) - 1 < min_free_space

\* C12: with a budget of ten recordings, once fifteen recordings have been
\* captured one after the other, the directory holds the ten captured last
\* and nothing else: the first five and their sidecars are gone.
C12_TenOfFifteenRetained ==
  (now > 15 /\ cpc = "top" /\ \A t \in 1..15 : ~Exists(fs, TempFilename(t))) =>
    /\ GlobWav(fs) = {RecordingFilename(t) : t \in 6..15}
    /\ \A t \in 1..5 : ~Exists(fs, MetadataFilename(t))

\* C13: the clean-up never deletes a recording while a recording with an
\* older capture timestamp (the one in its name) is retained.
C13_EvictsByCaptureTimestamp ==
  cpc = "reclaimMeta" => \A q \in GlobWav(fs) : q.i > oldest_recording.i

\* C14: whenever the recording thread is between cycles, a sidecar exists if
\* and only if its recording exists at the canonical path.
C14_SidecarPairing ==
  cpc \in {"top", "stopped"} =>
    \A t \in TS : Exists(fs, MetadataFilename(t)) <=> Exists(fs, RecordingFilename(t))

\* C15: the clean-up deletes the sidecar of a pair before its recording, and
\* a clean-up that ended without an error while still in need of space left
\* no sidecar of a deleted recording behind.
C15_SidecarFirstAndCompleted ==
  /\ cpc = "reclaimMeta" => ~Exists(fs, MetadataFilename(oldest_recording.i))
  /\ (reclaimRes.last = "done" /\ StillOver(fs)) =>
        \A p \in DOMAIN fs : p.k = "json" => ~Exists(fs, p)

\* C16: whenever a capture cycle has passed its admission step, the bytes
\* under the recordings directory are at most the budget.
C16_BudgetAfterAdmission ==
  cpc = "tmpOpen" => DirUsed(fs) <= max_storage

\* C17: a clean-up deletes a file only if no clean-up has ended since the
\* last capture file was created, and only if it began with the directory
\* above the budget or the free space below the floor.
C17_ReclaimIdempotent ==
  cpc = "reclaimMeta" =>
    /\ reclaimRes.last = "none"
    /\ reclaimRes.over \/ reclaimRes.low

\* C18: no capture cycle opens the sensor while the free space is below the
\* floor.
C18_NoCaptureBelowFloor ==
  cpc = "tmpOpen" => Free(fs) >= min_free_space

\* C19: as long as stop() has not been called, the recording thread, after
\* whatever happened in a cycle (an error at the stream, the write, the
\* rename, the flush or the sidecar included), begins another cycle (while
\* the clock is within the bound of the model).
C19_LoopResumes ==
  \A n \in 0..MaxTimeAlone :
    (recording /\ cpc # "stopped" /\ cyc = n /\ now <= MaxTimeAlone)
      ~> (cyc > n \/ ~recording)

\* A cycle failed at its write, leaving its temporary file unfinished, and
\* the thread has begun the next cycle.
C19_Witness ==
  /\ recording
  /\ cpc = "tmpOpen"
  /\ \E t \in TS : t # fname /\ Exists(fs, TempFilename(t)) /\ fs[TempFilename(t)].n = Partial

\* C20: the recording thread ends only at the top of its loop with the flag
\* down, and begins no iteration there once the flag is down; every file at
\* a canonical path is whole; when no I/O error can occur, a thread that has
\* ended left no temporary file and no recording without sidecar; and once
\* stop() is called in a cycle the thread finishes the cycle and ends.
C20_CooperativeStop ==
  /\ [][/\ (cpc' = "stopped" /\ cpc # "stopped") => (cpc = "top" /\ ~recording)
        /\ (cpc = "top" /\ (cyc' # cyc \/ cpc' = "reclaim")) => recording]_vars
  /\ [](\A t \in TS : Exists(fs, RecordingFilename(t)) => fs[RecordingFilename(t)].n = Full)
  /\ []((cpc = "stopped" /\ ~cfg.faults) =>
          \A t \in TS : /\ ~Exists(fs, TempFilename(t))
                        /\ Exists(fs, RecordingFilename(t)) => Exists(fs, MetadataFilename(t)))
  /\ (~recording /\ cpc \in {"top", "tmpOpen", "tmpWrite", "rename", "meta"})
        ~> (cpc = "stopped")

\* stop() was called during a cycle and the thread is finalizing the
\* segment: the temporary file is written, the rename is next.
C20_Witness ==
  /\ ~recording
  /\ cpc = "rename"
  /\ ~cfg.faults
  /\ Exists(fs, TempFilename(fname)) /\ fs[TempFilename(fname)].n = Full

\* C27: the index loses an entry only when its artifact is evicted, and then
\* it does: once the clean-up has deleted a recording whose path is in the
\* index, the path is no longer there, so every recording path in the index
\* is a file of the local store.
C27_EvictedLeaveIndex ==
  \A p \in synced_files : p.k = "wav" => Exists(fs, p)

\* C28: in a capture cycle the canonical file comes into being only by the
\* rename of a temporary file that holds all the frames, the flush follows
\* the rename, and a sidecar is created only for a recording that is at its
\* canonical path, whole, and flushed.
C28_WriteRenameFlushSidecar ==
  [][\A t \in TS :
       /\ (~Exists(fs, RecordingFilename(t)) /\ Exists(fs', RecordingFilename(t)))
            => /\ fs[TempFilename(t)].n = Full
               /\ fs'[RecordingFilename(t)] = fs[TempFilename(t)]
               /\ ~Exists(fs', TempFilename(t))
       /\ (RecordingFilename(t) \notin flushed /\ RecordingFilename(t) \in flushed')
            => /\ Exists(fs', RecordingFilename(t))
               /\ ~Exists(fs', MetadataFilename(t))
       /\ (~Exists(fs, MetadataFilename(t)) /\ Exists(fs', MetadataFilename(t)))
            => /\ Exists(fs, RecordingFilename(t))
               /\ fs[RecordingFilename(t)].n = Full
               /\ RecordingFilename(t) \in flushed]_vars

\* A cycle has gone through all four steps: its recording is at the
\* canonical path, flushed, with its sidecar, and no temporary file is left.
C28_Witness ==
  \E t \in TS :
    /\ Exists(fs, MetadataFilename(t))
    /\ Exists(fs, RecordingFilename(t))
    /\ RecordingFilename(t) \in flushed
    /\ ~Exists(fs, TempFilename(t))
    /\ cpc = "top"

\* C29: a file that is gone when the pass comes to it is skipped: a listed
\* entry that is no longer a file is not selected, and when the file is gone
\* once the transfer starts, nothing is sent, the index stays as it was
\* without the path, and the pass goes on with the rest of its listing.
C29_VanishedFileSkipped ==
  [][/\ (spc = "pick" /\ spc' = "put") => Exists(fs, cur')
     /\ (spc = "put" /\ ~Exists(fs, cur) /\ spc' # "put" /\ crashes' = crashes)
          => /\ remote' = remote
             /\ synced_files' = synced_files
             /\ cur \notin synced_files'
             /\ spc' = "pick"
             /\ snap' = snap
             /\ sdir' = sdir
             /\ lastPass' = lastPass]_vars

\* The pass skipped a file that the clean-up had deleted under it, and has
\* since sent another file of its listing.
C29_Witness ==
  /\ gone # {}
  /\ gone \cap synced_files = {}
  /\ spc = "saveOpen"
  /\ cur \notin gone
  /\ cur \in synced_files

\* C30: a turn of the frame-reading loop, whatever the read returned, leaves
\* the cycle reading or on its way to finalize the artifact, and keeps the
\* frames accumulated so far.
C30_ReadErrorSkipped ==
  [][cpc = "read" => (cpc' \in {"read", "tmpOpen"} /\ frames' >= frames)]_vars

\* C24: a tick on which gpsd reports no fix appends nothing to any location
\* log and leaves the thread running, on its way to the next tick; the
\* sleep between two ticks leads to the loop's test and nowhere else.
C24_NoFixSkipsTick ==
  [][/\ (gpc = "loop" /\ nofix' > nofix)
          => /\ fs' = fs
             /\ gps_running'
             /\ gpc' = "sleep"
     /\ (gpc = "sleep" /\ gpc' # "sleep") => gpc' = "loop"]_vars

\* After a line was logged, three ticks in a row had no fix: the log still
\* has its line and the thread is at the top of its loop, running.
C24_Witness ==
  /\ nofix >= 3
  /\ gps_running
  /\ gpc = "loop"
  /\ fs[GpsFilename(today)].n = 1

\* C25: the data directory never holds more than max_gps_logs daily
\* location logs.
C25_AtMostNLogs == Cardinality(GpsLogs(fs)) <= max_gps_logs

\* C21: while the service is serving, the recording thread is alive with its
\* flag up; the scheduler thread ends only when the service is stopping;
\* and the step in which the GPS thread dies of an error, or in which a sync
\* pass returns failure or raises into the scheduler, changes nothing of the
\* recording thread, of the supervisor, or of the other of the two threads.
C21_FaultIsolation ==
  /\ [](mpc = "serve" => (recording /\ cpc # "stopped"))
  /\ [](sched = "done" => ~running)
  /\ [][/\ (gpc = "loop" /\ gps_running /\ gpc' = "done")
             => /\ UNCHANGED <<recording, cpc, cycleVars, running, mpc>>
                /\ UNCHANGED <<sched, spc>>
        /\ (sched = "call" /\ sched' # "call" /\ lastPass.ret # "True")
             => /\ UNCHANGED <<recording, cpc, cycleVars, running, mpc>>
                /\ UNCHANGED <<gpc, gps_running>>
                /\ sched' \in {"top", "errsleep"}]_vars

\* The GPS thread has died of an error and a sync pass has raised, the
\* service is still serving, and the recording thread has begun a cycle
\* since.
C21_Witness ==
  /\ mpc = "serve"
  /\ gps_available
  /\ gpc = "done"
  /\ lastPass.ret = "raised"
  /\ sched \in {"errsleep", "top", "wait"}
  /\ faultCyc >= 0
  /\ cyc > faultCyc
  /\ cpc \in {"tmpOpen", "tmpWrite", "rename", "meta"}

\* C22: once stop() has begun, the main thread always has a step it can take
\* whatever the state of the other threads is: every wait in stop() is
\* bounded.
C22_StopNeverBlocks ==
  mpc \in {"stopRec", "joinRec", "stopGps", "joinGps", "joinSync"} => ENABLED Main

\* C23: a sync pass starts only from the scheduler's wait, when that has
\* ended at or after the day boundary the scheduler computed, and on a later
\* day than the pass before; and the boundary the scheduler computes, after
\* a pass that succeeded, failed or raised alike, lies after the current day.
C23_OnePassPerDayBoundary ==
  [][/\ passes' > passes
          => /\ sched = "go"
             /\ sched' = "call"
             /\ today >= next_sync
             /\ today > lastSyncDay
     /\ (sched' = "go" /\ sched # "go") => (sched = "wait" /\ today >= next_sync)
     /\ (sched = "top" /\ sched' = "wait") => next_sync' > today]_vars

\* A second pass is under way, on the day after the first, which failed.
C23_Witness ==
  /\ passes = 2
  /\ sched = "call"
  /\ spc = "scan"
  /\ prevRes = "failed"
  /\ lastSyncDay = today
  /\ today > 2

\* C26: gps_available never changes after construction, and while it is
\* false no GPS thread exists, the tracker's flag is down, every location
\* query returns None, no location log exists, and a serving service has
\* its recording thread and its sync scheduler running.
C26_GpsDisabledForLife ==
  /\ [][gps_available' = gps_available]_vars
  /\ [](~gps_available =>
          /\ gpc = "none"
          /\ ~gps_running
          /\ \A p \in DOMAIN fs : p.k = "gps" => ~Exists(fs, p)
          /\ \A raised \in BOOLEAN : \A mode \in GpsModes :
               GetCurrentLocation(gps_available, raised, mode) = None
          /\ mpc = "serve" => (recording /\ cpc # "stopped" /\ sched # "none"))

\* Without gpsd the service is serving: a capture cycle is at its sidecar
\* and a sync pass is sending a file.
C26_Witness ==
  /\ ~gps_available
  /\ mpc = "serve"
  /\ cpc = "meta"
  /\ spc = "put"

\* C31: a clean-up attempts one deletion per candidate at most: each attempt
\* takes the head of the candidate list off it and the list never grows
\* while the clean-up runs; and a clean-up that ran out of candidates with
\* the usage still above the target has stopped and reported the exhaustion
\* as a critical condition.
C31_ReclaimStopsAndReports ==
  /\ [][/\ (cpc = "reclaim" /\ cpc' = "reclaimMeta")
             => /\ oldest_recording' = Head(recordings)
                /\ recordings' = Tail(recordings)
        /\ (cpc \in {"reclaim", "reclaimMeta"} /\ cpc' \in {"reclaim", "reclaimMeta"})
             => Len(recordings') <= Len(recordings)]_vars
  /\ []((cpc = "name" /\ reclaimRes.last = "done" /\ StillOver(fs))
          => "critical" \in ReclaimLogged(reclaimRes))

\* C32: rotation of the location logs has a trigger of its own: a step that
\* removes a daily log is not a sampling tick and appends no sample, so that
\* it neither needs a fix nor hangs on a draw made in the tick.
C32_RotationOffTheTick ==
  [][(\E p \in GpsLogs(fs) : ~Exists(fs', p))
       => /\ ~(gpc = "loop" /\ gpc' = "sleep")
          /\ fs'[GpsFilename(today)] = fs[GpsFilename(today)]]_vars

\* C33: a clean-up that finds the store over its limit takes every recording
\* of the directory as a candidate, in the index or not; a clean-up under
\* way always has its next step, whatever the sync pass is doing; and a
\* sync pass under way always has its next step, whatever the recording
\* thread is doing.
C33_EvictionSyncDecoupled ==
  /\ [][(cpc = "top" /\ cpc' = "reclaim" /\ reclaimRes'.on)
          => \A p \in DOMAIN fs :
               (p.k = "wav" /\ Exists(fs, p))
                 => \E i \in DOMAIN recordings' : recordings'[i] = p]_vars
  /\ [](cpc \in {"reclaim", "reclaimMeta"} => ENABLED (ReclaimUnlink \/ ReclaimMeta))
  /\ [](spc \in {"scan", "pick", "put", "saveOpen", "saveWrite"}
          => ENABLED (SyncScan \/ SyncPick \/ SyncPut \/ SyncSaveOpen \/ SyncSaveWrite))

\* While a sync pass is under way the clean-up has deleted a recording that
\* was never transferred: the collector has no file at its path and the
\* index does not hold it.
C33_Witness ==
  /\ cpc = "reclaimMeta"
  /\ ~Exists(fs, oldest_recording)
  /\ ~Exists(remote, oldest_recording)
  /\ oldest_recording \notin synced_files
  /\ spc \in {"pick", "put", "saveOpen", "saveWrite"}

\* C34: a pass never selects a path that is in the index, and the
\* collector's copy of a path in the index never changes, whatever happens
\* to the local file afterwards.
C34_IndexedNeverResent ==
  [][/\ (spc = "pick" /\ spc' = "put") => cur' \notin synced_files
     /\ \A p \in DOMAIN fs : remote'[p] # remote[p] => p \notin synced_files]_vars

\* The day's location log was sent with one line and has two now; a second
\* pass has walked both directories to the end and returned True, and the
\* collector still has the one line.
C34_Witness ==
  /\ GpsFilename(Today) \in synced_files
  /\ fs[GpsFilename(Today)].n = 2
  /\ remote[GpsFilename(Today)].n = 1
  /\ passes = 2
  /\ spc = "idle"
  /\ lastPass.ret = "True"

\* C35: the rename of a capture cycle never replaces a file: the canonical
\* path of the cycle is not taken by the recording of an earlier cycle.
C35_DistinctCanonicalPaths ==
  [][(cpc = "rename" /\ cpc' = "meta") => ~Exists(fs, RecordingFilename(fname))]_vars

\* C36: a stop request to the tracker is never lost: once stop() has called
\* stop_tracking(), the tracker's flag is down and stays down, so that the
\* tracking loop takes no further tick.
C36_StopNeverLost ==
  mpc \in {"joinGps", "joinSync", "stopped"} => ~gps_running

\* C37: once stop() has lowered the running flag the scheduler starts no
\* sync pass: every pass begins with the flag up.
C37_NoPassAfterStop ==
  [][passes' > passes => running]_vars

\* C38: a step of the clean-up changes no file but a recording (*.wav) or a
\* sidecar, which it deletes: the recording at the head of its candidate
\* list, and the sidecar of the recording it has just deleted; temporary
\* files, location logs, the index file and the index stay as they are.
C38_ReclaimDeletesOnlyCaptures ==
  [][(cpc = "reclaim" \/ cpc = "reclaimMeta")
       => /\ \A p \in DOMAIN fs :
               fs'[p] # fs[p]
                 => /\ fs'[p] = Absent
                    /\ \/ p.k = "wav" /\ cpc = "reclaim" /\ p = Head(recordings)
                       \/ /\ p.k = "json"
                          /\ cpc = "reclaimMeta"
                          /\ p = MetadataFilename(oldest_recording.i)
                          /\ oldest_recording.k = "wav"
          /\ idxFile' = idxFile
          /\ synced_files' = synced_files
          /\ remote' = remote]_vars

\* The clean-up has deleted a recording while the directory holds the
\* temporary file of an abandoned cycle, and the location log and the index
\* file are there.
C38_Witness ==
  /\ cpc = "reclaimMeta"
  /\ ~Exists(fs, oldest_recording)
  /\ \E p \in DOMAIN fs : p.k = "tmp" /\ Exists(fs, p)
  /\ \E p \in DOMAIN fs : p.k = "gps" /\ Exists(fs, p)
  /\ idxFile.st = "ok"
====
